---- MODULE Spec2Model ----
(***************************************************************************)
(* SmartCartShop backend: cart, order and catalog route handlers over the  *)
(* relational store.  Every handler is an async function: each awaited     *)
(* store call is one atomic step, and other requests may run between two   *)
(* steps of the same handler.  An interactive prisma.$transaction commits  *)
(* as one atomic step (its updates are relative increments/decrements and  *)
(* a failing statement rolls the whole transaction back).                  *)
(* Money is counted in integer cents.                                      *)
(* The sustainability routes read the user table (the points ledger), the  *)
(* orders and the cart, and keep one preference row per user.              *)
(***************************************************************************)
EXTENDS Integers, FiniteSets, Sequences, TLC

\* ---------------------------------------------------------------- bounds
MaxStock == 2
MaxQty == 2
MaxPrice == 2
MaxRequests == 2

Users == {"u1", "u2"}
Products == {"A", "B"}
\* a product id that names no row of the product table
NoProduct == "Z"
\* concurrently running request handlers
Reqs == {"r1", "r2"}

validStatuses == {"pending", "processing", "shipped", "delivered", "cancelled"}

VARIABLES
  stock,        \* Product.stock, by product id
  price,        \* Product.price, by product id
  cartItems,    \* CartItem rows: [id, userId, productId, quantity]
  orders,       \* Order rows with their OrderItem children
  nextCartId,   \* autoincrement of CartItem.id
  nextOrderId,  \* autoincrement of Order.id
  pc,           \* where each request handler is suspended
  loc,          \* the handler's local variables
  resp,         \* the response sent by the last step, if it sent one
  nreq,         \* requests started so far
  lastPlaced,   \* history: the order just placed and the stock before it
  leftPending,  \* history: orders whose status has ever been non-pending
  userRows,     \* User rows in stored order: the ledger of points and savings
  userPreferences, \* UserPreference rows, at most one per user
  view          \* the body of the last sustainability response, if any

db == <<stock, price, cartItems, orders, nextCartId, nextOrderId>>
hist == <<lastPlaced, leftPending>>
eco == <<userRows, userPreferences>>
vars == <<stock, price, cartItems, orders, nextCartId, nextOrderId,
          pc, loc, resp, nreq, lastPlaced, leftPending,
          userRows, userPreferences, view>>

\* ---------------------------------------------------------------- helpers
NoLoc == [userId |-> "", id |-> 0, productId |-> "", quantity |-> 0,
          oldQuantity |-> 0, status |-> "", items |-> {}, total |-> 0]

\* op, userId and target name the request answered (target: the :id of its
\* path); code, error, id and product are the response
NoResp == [op |-> "", userId |-> "", target |-> 0, code |-> 0, error |-> "",
           id |-> 0, product |-> ""]

\* a success response carrying the id of the row it returns
Ok(c, i) == [NoResp EXCEPT !.code = c, !.id = i]

\* res.status(c).json({ error: e })
Err(c, e) == [NoResp EXCEPT !.code = c, !.error = e]

\* `Insufficient stock for ${item.product.name}`
ErrStock(p) == [NoResp EXCEPT !.code = 400, !.error = "Insufficient stock for", !.product = p]

\* no sustainability body: ledger is the caller's User row as selected,
\* entries the leaderboard rows
NoLedger == [greenPoints |-> 0, totalCO2Saved |-> 0, totalPlasticSaved |-> 0]

NoView == [ledger |-> NoLedger, ecoProductsPurchased |-> 0, globalRank |-> 0,
           totalUsers |-> 0, entries |-> <<>>, ecoFriendlyItems |-> 0,
           totalItems |-> 0, potentialGreenPoints |-> 0,
           preferences |-> {}]

NoPlaced == [id |-> 0, stock |-> [p \in Products |-> 0]]

RECURSIVE SumTotal(_)
\* total += parseFloat(item.product.price) * item.quantity
SumTotal(items) ==
  IF items = {} THEN 0
  ELSE LET i == CHOOSE x \in items : TRUE
       IN  i.price * i.quantity + SumTotal(items \ {i})

RECURSIVE SumQty(_, _)
\* the quantity a set of lines/items holds of product p
SumQty(items, p) ==
  IF items = {} THEN 0
  ELSE LET i == CHOOSE x \in items : TRUE
       IN  (IF i.productId = p THEN i.quantity ELSE 0) + SumQty(items \ {i}, p)

\* prisma.cartItem.findMany({ where: { userId }, include: { product: true } })
CartOf(u) ==
  { [id |-> c.id, productId |-> c.productId, quantity |-> c.quantity,
     price |-> price[c.productId], stock |-> stock[c.productId]] :
    c \in {x \in cartItems : x.userId = u} }

\* the order looked up by id alone, whoever owns it
FindOrder_anyUser(u, oid) == {o \in orders : o.id = oid}

\* prisma.order.findFirst({ where: { id, userId } })
FindOrder(u, oid) == {o \in orders : o.id = oid /\ o.userId = u}

\* GET /orders/:id
GetOrder(u, oid) ==
  IF FindOrder(u, oid) = {} THEN Err(404, "Order not found") ELSE Ok(200, oid)

\* ---------------------------------------------------------------- initial state
\* The shop after some use: u1 has placed order 1 (one unit of A at price 1,
\* from the cart line with id 1) and has since added A and B to the cart, u2
\* has added A; one unit of A and two of B are left in stock.
InitOrder ==
  [id |-> 1, userId |-> "u1", total |-> 1, status |-> "pending",
   orderItems |-> {[productId |-> "A", quantity |-> 1, price |-> 1]}]

InitCart ==
  { [id |-> 2, userId |-> "u1", productId |-> "A", quantity |-> 1],
    [id |-> 3, userId |-> "u1", productId |-> "B", quantity |-> 1],
    [id |-> 4, userId |-> "u2", productId |-> "A", quantity |-> 1] }

InitStock == [p \in Products |-> IF p = "A" THEN 1 ELSE 2]

\* two registered users; u1 has earned points and savings
InitUsers ==
  << [id |-> "u1", name |-> "u1", greenPoints |-> 10,
      totalCO2Saved |-> 1, totalPlasticSaved |-> 1],
     [id |-> "u2", name |-> "u2", greenPoints |-> 0,
      totalCO2Saved |-> 0, totalPlasticSaved |-> 0] >>

InitShop ==
  /\ stock = InitStock
  /\ price = [p \in Products |-> 1]
  /\ cartItems = InitCart
  /\ nextCartId = 5
  /\ orders = {InitOrder}
  /\ nextOrderId = 2
  /\ pc = [r \in Reqs |-> "idle"]
  /\ loc = [r \in Reqs |-> NoLoc]
  /\ resp = NoResp
  /\ nreq = 0
  /\ lastPlaced = NoPlaced
  /\ leftPending = {}
  /\ userPreferences = {}
  /\ view = NoView

Init ==
  /\ InitShop
  /\ userRows = InitUsers

\* a handler starts on the first free slot while the request budget lasts
Start(r) ==
  /\ pc[r] = "idle"
  /\ r = "r1" \/ pc["r1"] # "idle"
  /\ nreq < MaxRequests
  /\ nreq' = nreq + 1

\* the handler of a cart, order or catalog route sends its response and
\* ends; none of these routes touches the User or UserPreference table
Reply(r, op, u, t, rsp) ==
  /\ pc' = [pc EXCEPT ![r] = "idle"]
  /\ loc' = [loc EXCEPT ![r] = NoLoc]
  /\ resp' = [rsp EXCEPT !.op = op, !.userId = u, !.target = t]
  /\ view' = NoView
  /\ UNCHANGED eco

\* the handler awaits its next store call
Suspend(r, at, l) ==
  /\ pc' = [pc EXCEPT ![r] = at]
  /\ loc' = [loc EXCEPT ![r] = l]
  /\ resp' = NoResp
  /\ view' = NoView
  /\ UNCHANGED eco

\* ---------------------------------------------------------------- POST /orders
\* the stock check off by one: a line asking for all that is left fails too
Short_offByOne(items) == {i \in items : i.stock <= i.quantity}

\* if (item.product.stock < item.quantity): the lines that fail the check
Short(items) == {i \in items : i.stock < i.quantity}

\* the cart read and the stock validation loop
CheckoutRead(r, u) ==
  /\ Start(r)
  /\ LET items == CartOf(u)
         short == Short(items)
     IN  IF items = {} THEN Reply(r, "POST /orders", u, 0, Err(400, "Cart is empty"))
         ELSE IF short # {}
              THEN \E i \in short :
                     Reply(r, "POST /orders", u, 0, ErrStock(i.productId))
              ELSE Suspend(r, "checkout_tx",
                           [NoLoc EXCEPT !.userId = u, !.items = items,
                                         !.total = SumTotal(items)])
  /\ UNCHANGED <<db, hist>>

\* the item price read again inside the transaction, the total kept
NewOrder_currentPrice(r) ==
  [id |-> nextOrderId, userId |-> loc[r].userId, total |-> loc[r].total,
   status |-> "pending",
   orderItems |-> { [productId |-> i.productId, quantity |-> i.quantity,
                     price |-> price[i.productId]] : i \in loc[r].items }]

\* the order row and its items, from the lines read before the transaction
NewOrder(r) ==
  [id |-> nextOrderId, userId |-> loc[r].userId, total |-> loc[r].total,
   status |-> "pending",
   orderItems |-> { [productId |-> i.productId, quantity |-> i.quantity,
                     price |-> i.price] : i \in loc[r].items }]

\* the decrement stopped at zero
DecrementStock_floor(r) ==
  [p \in Products |->
     IF stock[p] < SumQty(loc[r].items, p) THEN 0
     ELSE stock[p] - SumQty(loc[r].items, p)]

\* one unit taken per line, whatever its quantity
DecrementStock_byOne(r) ==
  [p \in Products |-> stock[p] - Cardinality({i \in loc[r].items : i.productId = p})]

\* stock: { decrement: item.quantity } for every line read
DecrementStock(r) ==
  [p \in Products |-> stock[p] - SumQty(loc[r].items, p)]

\* prisma.$transaction: order, order items, stock decrement, cart clear
CheckoutTx(r) ==
  /\ pc[r] = "checkout_tx"
  /\ orders' = orders \cup {NewOrder(r)}
  /\ nextOrderId' = nextOrderId + 1
  /\ stock' = DecrementStock(r)
  /\ cartItems' = {c \in cartItems : c.userId # loc[r].userId}
  /\ lastPlaced' = [id |-> nextOrderId, stock |-> stock]
  /\ Reply(r, "POST /orders", loc[r].userId, 0, Ok(201, nextOrderId))
  /\ UNCHANGED <<price, nextCartId, nreq, leftPending>>

\* ---------------------------------------------------------------- DELETE /orders/:id
\* only delivered orders are refused
Cancellable_notDelivered(o) == o.status # "delivered"

\* if (order.status !== 'pending') return 400
Cancellable(o) == o.status = "pending"

\* the order read with its items, then the ownership and status checks
CancelRead(r, u, oid) ==
  /\ Start(r)
  /\ LET found == FindOrder(u, oid)
     IN  IF found = {} THEN Reply(r, "DELETE /orders/:id", u, oid, Err(404, "Order not found"))
         ELSE LET o == CHOOSE x \in found : TRUE
              IN  IF ~Cancellable(o)
                  THEN Reply(r, "DELETE /orders/:id", u, oid, Err(400, "Can only cancel pending orders"))
                  ELSE Suspend(r, "cancel_tx",
                               [NoLoc EXCEPT !.userId = u, !.id = oid,
                                             !.items = o.orderItems])
  /\ UNCHANGED <<db, hist>>

\* the decrement of the checkout copied into the cancellation
RestoreStock_decrement(r) ==
  [p \in Products |-> stock[p] - SumQty(loc[r].items, p)]

\* stock: { increment: item.quantity } for every item read
RestoreStock(r) ==
  [p \in Products |-> stock[p] + SumQty(loc[r].items, p)]

\* the increments kept when the delete finds no row
CancelTx_noRollback(r) ==
  /\ pc[r] = "cancel_tx"
  /\ stock' = RestoreStock(r)
  /\ orders' = {o \in orders : o.id # loc[r].id}
  /\ IF \E o \in orders : o.id = loc[r].id
     THEN Reply(r, "DELETE /orders/:id", loc[r].userId, loc[r].id, Ok(200, loc[r].id))
     ELSE Reply(r, "DELETE /orders/:id", loc[r].userId, loc[r].id, Err(500, "Failed to cancel order"))
  /\ lastPlaced' = NoPlaced
  /\ UNCHANGED <<price, cartItems, nextCartId, nextOrderId, nreq, leftPending>>

\* prisma.$transaction: stock restore, order delete (items cascade); deleting
\* a row that is gone throws and rolls the increments back
CancelTx(r) ==
  /\ pc[r] = "cancel_tx"
  /\ IF \E o \in orders : o.id = loc[r].id
     THEN /\ stock' = RestoreStock(r)
          /\ orders' = {o \in orders : o.id # loc[r].id}
          /\ Reply(r, "DELETE /orders/:id", loc[r].userId, loc[r].id, Ok(200, loc[r].id))
     ELSE /\ UNCHANGED <<stock, orders>>
          /\ Reply(r, "DELETE /orders/:id", loc[r].userId, loc[r].id, Err(500, "Failed to cancel order"))
  /\ lastPlaced' = NoPlaced
  /\ UNCHANGED <<price, cartItems, nextCartId, nextOrderId, nreq, leftPending>>

\* ---------------------------------------------------------------- PUT /orders/:id
\* the status validation and the ownership read
StatusRead(r, u, oid, s) ==
  /\ Start(r)
  /\ IF s \notin validStatuses THEN Reply(r, "PUT /orders/:id", u, oid, Err(400, "Invalid status"))
     ELSE IF FindOrder(u, oid) = {} THEN Reply(r, "PUT /orders/:id", u, oid, Err(404, "Order not found"))
     ELSE Suspend(r, "status_write", [NoLoc EXCEPT !.userId = u, !.id = oid, !.status = s])
  /\ UNCHANGED <<db, hist>>

\* a status of cancelled handled as a deletion of the order
SetStatus_deleteCancelled(oid, s) ==
  IF s = "cancelled" THEN {o \in orders : o.id # oid}
  ELSE {IF o.id = oid THEN [o EXCEPT !.status = s] ELSE o : o \in orders}

\* prisma.order.update({ where: { id }, data: { status } })
SetStatus(oid, s) ==
  {IF o.id = oid THEN [o EXCEPT !.status = s] ELSE o : o \in orders}

StatusWrite(r) ==
  /\ pc[r] = "status_write"
  /\ IF \E o \in orders : o.id = loc[r].id
     THEN /\ orders' = SetStatus(loc[r].id, loc[r].status)
          /\ leftPending' = IF loc[r].status # "pending"
                            THEN leftPending \cup {loc[r].id} ELSE leftPending
          /\ lastPlaced' = NoPlaced
          /\ Reply(r, "PUT /orders/:id", loc[r].userId, loc[r].id, Ok(200, loc[r].id))
     ELSE /\ UNCHANGED <<orders, hist>>
          /\ Reply(r, "PUT /orders/:id", loc[r].userId, loc[r].id, Err(500, "Failed to update order"))
  /\ UNCHANGED <<stock, price, cartItems, nextCartId, nextOrderId, nreq>>

\* ---------------------------------------------------------------- PUT /products/:id
\* admin update of a product's stock and/or price (one store call); a field
\* left out of the body is undefined and keeps its value
Undef == -1

ProductUpdate(p, newStock, newPrice) ==
  /\ nreq < MaxRequests
  /\ nreq' = nreq + 1
  /\ newStock # Undef \/ newPrice # Undef
  /\ stock' = IF newStock # Undef THEN [stock EXCEPT ![p] = newStock] ELSE stock
  /\ price' = IF newPrice # Undef THEN [price EXCEPT ![p] = newPrice] ELSE price
  /\ lastPlaced' = NoPlaced
  /\ resp' = [Ok(200, 0) EXCEPT !.op = "PUT /products/:id", !.product = p]
  /\ view' = NoView
  /\ UNCHANGED <<cartItems, orders, nextCartId, nextOrderId, pc, loc, leftPending, eco>>

\* ---------------------------------------------------------------- POST /cart
\* only a negative quantity refused
InvalidQuantity_negative(q) == q < 0

\* !quantity || quantity < 1
InvalidQuantity(q) == q = 0 \/ q < 1

\* input validation, then the product read and the stock check
AddFindProduct(r, u, pid, q) ==
  /\ Start(r)
  /\ IF InvalidQuantity(q) THEN Reply(r, "POST /cart", u, 0, Err(400, "Invalid product or quantity"))
     ELSE IF pid \notin Products THEN Reply(r, "POST /cart", u, 0, Err(404, "Product not found"))
     ELSE IF stock[pid] < q THEN Reply(r, "POST /cart", u, 0, Err(400, "Insufficient stock"))
     ELSE Suspend(r, "add_find", [NoLoc EXCEPT !.userId = u, !.productId = pid, !.quantity = q])
  /\ UNCHANGED <<db, hist>>

\* prisma.cartItem.findUnique({ where: { userId_productId } })
FindCartItem(u, pid) == {c \in cartItems : c.userId = u /\ c.productId = pid}

\* the read of the existing cart line
AddFindCartItem(r) ==
  /\ pc[r] = "add_find"
  /\ LET found == FindCartItem(loc[r].userId, loc[r].productId)
     IN  IF found = {} THEN Suspend(r, "add_write", loc[r])
         ELSE LET c == CHOOSE x \in found : TRUE
              IN  Suspend(r, "add_write", [loc[r] EXCEPT !.id = c.id, !.oldQuantity = c.quantity])
  /\ UNCHANGED <<db, hist, nreq>>

\* prisma.cartItem.update({ where: { id }, data: { quantity } })
SetQuantity(id, q) ==
  {IF c.id = id THEN [c EXCEPT !.quantity = q] ELSE c : c \in cartItems}

\* the unique index on (userId, productId) admits the new row
CanCreate(u, pid) == FindCartItem(u, pid) = {}

\* the update of the line read, or the insert of a new one; updating a row
\* that is gone and inserting a second row for (userId, productId) both throw
AddWrite(r) ==
  /\ pc[r] = "add_write"
  /\ IF loc[r].id # 0
     THEN IF \E c \in cartItems : c.id = loc[r].id
          THEN /\ cartItems' = SetQuantity(loc[r].id, loc[r].oldQuantity + loc[r].quantity)
               /\ Reply(r, "POST /cart", loc[r].userId, 0, Ok(201, loc[r].id))
               /\ UNCHANGED nextCartId
          ELSE /\ Reply(r, "POST /cart", loc[r].userId, 0, Err(500, "Failed to add item to cart"))
               /\ UNCHANGED <<cartItems, nextCartId>>
     ELSE IF CanCreate(loc[r].userId, loc[r].productId)
          THEN /\ cartItems' = cartItems \cup
                     {[id |-> nextCartId, userId |-> loc[r].userId,
                       productId |-> loc[r].productId, quantity |-> loc[r].quantity]}
               /\ nextCartId' = nextCartId + 1
               /\ Reply(r, "POST /cart", loc[r].userId, 0, Ok(201, nextCartId))
          ELSE /\ Reply(r, "POST /cart", loc[r].userId, 0, Err(500, "Failed to add item to cart"))
               /\ UNCHANGED <<cartItems, nextCartId>>
  /\ lastPlaced' = IF cartItems' = cartItems THEN lastPlaced ELSE NoPlaced
  /\ UNCHANGED <<stock, price, orders, nextOrderId, nreq, leftPending>>

\* ---------------------------------------------------------------- PUT /cart/:id
\* input validation, the ownership read and the stock check
UpdateRead(r, u, id, q) ==
  /\ Start(r)
  /\ LET found == {c \in cartItems : c.id = id /\ c.userId = u}
     IN  IF InvalidQuantity(q) THEN Reply(r, "PUT /cart/:id", u, id, Err(400, "Invalid quantity"))
         ELSE IF found = {} THEN Reply(r, "PUT /cart/:id", u, id, Err(404, "Cart item not found"))
         ELSE IF stock[(CHOOSE c \in found : TRUE).productId] < q
              THEN Reply(r, "PUT /cart/:id", u, id, Err(400, "Insufficient stock"))
              ELSE Suspend(r, "update_write", [NoLoc EXCEPT !.userId = u, !.id = id, !.quantity = q])
  /\ UNCHANGED <<db, hist>>

UpdateWrite(r) ==
  /\ pc[r] = "update_write"
  /\ IF \E c \in cartItems : c.id = loc[r].id
     THEN /\ cartItems' = SetQuantity(loc[r].id, loc[r].quantity)
          /\ Reply(r, "PUT /cart/:id", loc[r].userId, loc[r].id, Ok(200, loc[r].id))
     ELSE /\ Reply(r, "PUT /cart/:id", loc[r].userId, loc[r].id, Err(500, "Failed to update cart item"))
          /\ UNCHANGED cartItems
  /\ lastPlaced' = IF cartItems' = cartItems THEN lastPlaced ELSE NoPlaced
  /\ UNCHANGED <<stock, price, orders, nextCartId, nextOrderId, nreq, leftPending>>

\* ---------------------------------------------------------------- DELETE /cart/:id
RemoveRead(r, u, id) ==
  /\ Start(r)
  /\ IF {c \in cartItems : c.id = id /\ c.userId = u} = {}
     THEN Reply(r, "DELETE /cart/:id", u, id, Err(404, "Cart item not found"))
     ELSE Suspend(r, "remove_write", [NoLoc EXCEPT !.userId = u, !.id = id])
  /\ UNCHANGED <<db, hist>>

RemoveWrite(r) ==
  /\ pc[r] = "remove_write"
  /\ IF \E c \in cartItems : c.id = loc[r].id
     THEN /\ cartItems' = {c \in cartItems : c.id # loc[r].id}
          /\ lastPlaced' = NoPlaced
          /\ Reply(r, "DELETE /cart/:id", loc[r].userId, loc[r].id, Ok(200, loc[r].id))
     ELSE /\ Reply(r, "DELETE /cart/:id", loc[r].userId, loc[r].id, Err(500, "Failed to remove item from cart"))
          /\ UNCHANGED <<cartItems, lastPlaced>>
  /\ UNCHANGED <<stock, price, orders, nextCartId, nextOrderId, nreq, leftPending>>

\* ---------------------------------------------------------------- DELETE /cart
ClearCart(r, u) ==
  /\ Start(r)
  /\ cartItems' = {c \in cartItems : c.userId # u}
  /\ lastPlaced' = IF cartItems' = cartItems THEN lastPlaced ELSE NoPlaced
  /\ Reply(r, "DELETE /cart", u, 0, Ok(200, 0))
  /\ UNCHANGED <<stock, price, orders, nextCartId, nextOrderId, leftPending>>

\* ---------------------------------------------------------------- GET /sustainability/dashboard
\* products whose isEcoFriendly flag is set
EcoProducts == {"A"}

\* a user id that names no row of the user table
NoUser == "u0"

\* orderBy leaves the order of rows of equal greenPoints to the store: they
\* come in stored order or in the reverse of it
TieOrders == {"stored", "reverse"}

\* row a comes before row x in the result
Before(a, x, tie) ==
  \/ a.greenPoints > x.greenPoints
  \/ tie = "stored" /\ a.greenPoints = x.greenPoints

\* x put into the sorted rows s
InsertDesc(s, x, tie) ==
  LET k == Cardinality({i \in 1..Len(s) : Before(s[i], x, tie)})
  IN  SubSeq(s, 1, k) \o <<x>> \o SubSeq(s, k + 1, Len(s))

\* the rows as they are stored, not sorted
OrderByGreenPointsDesc_unsorted(rows, tie) == rows

RECURSIVE OrderByGreenPointsDesc(_, _)
\* prisma.user.findMany({ orderBy: { greenPoints: 'desc' } })
OrderByGreenPointsDesc(rows, tie) ==
  IF rows = <<>> THEN <<>>
  ELSE InsertDesc(OrderByGreenPointsDesc(SubSeq(rows, 1, Len(rows) - 1), tie),
                  rows[Len(rows)], tie)

\* allUsers.findIndex(u => u.id === req.userId)
FindIndex(allUsers, u) ==
  LET hits == {i \in 1..Len(allUsers) : allUsers[i].id = u}
  IN  IF hits = {} THEN -1
      ELSE (CHOOSE i \in hits : \A j \in hits : i <= j) - 1

\* the position counted from 0
userRank_zeroBased(allUsers, u) == FindIndex(allUsers, u)

\* const userRank = allUsers.findIndex(...) + 1
userRank(allUsers, u) == FindIndex(allUsers, u) + 1

RECURSIVE ecoProductCount(_)
\* ecoOrders.reduce: the order items whose product is eco-friendly
ecoProductCount(ecoOrders) ==
  IF ecoOrders = {} THEN 0
  ELSE LET o == CHOOSE x \in ecoOrders : TRUE
       IN  Cardinality({i \in o.orderItems : i.productId \in EcoProducts})
             + ecoProductCount(ecoOrders \ {o})

\* prisma.user.findUnique with the three ledger columns selected; null
\* spreads to nothing
LedgerOf(u) ==
  LET hits == {i \in 1..Len(userRows) : userRows[i].id = u}
  IN  IF hits = {} THEN NoLedger
      ELSE LET row == userRows[CHOOSE i \in hits : TRUE]
           IN  [greenPoints |-> row.greenPoints,
                totalCO2Saved |-> row.totalCO2Saved,
                totalPlasticSaved |-> row.totalPlasticSaved]

\* the three reads and the response.  No route writes the user table, so
\* the two reads of it are taken together with the read of the orders.
Dashboard(u, tie) ==
  /\ nreq < MaxRequests
  /\ nreq' = nreq + 1
  /\ LET allUsers == OrderByGreenPointsDesc(userRows, tie)
     IN  view' = [NoView EXCEPT
                    !.ledger = LedgerOf(u),
                    !.ecoProductsPurchased =
                        ecoProductCount({o \in orders : o.userId = u}),
                    !.globalRank = userRank(allUsers, u),
                    !.totalUsers = Len(allUsers)]
  /\ resp' = [Ok(200, 0) EXCEPT !.op = "GET /sustainability/dashboard", !.userId = u]
  /\ UNCHANGED <<db, hist, pc, loc, eco>>

\* ---------------------------------------------------------------- GET /sustainability/leaderboard
\* take: 10
LeaderboardSize == 10

\* the first n rows, or all of them when there are fewer
Take(rows, n) == SubSeq(rows, 1, IF Len(rows) < n THEN Len(rows) ELSE n)

\* select: { name, greenPoints, totalCO2Saved, totalPlasticSaved }
SelectEntry(row) ==
  [name |-> row.name, greenPoints |-> row.greenPoints,
   totalCO2Saved |-> row.totalCO2Saved,
   totalPlasticSaved |-> row.totalPlasticSaved]

\* public: the request carries no user
Leaderboard(tie) ==
  /\ nreq < MaxRequests
  /\ nreq' = nreq + 1
  /\ LET topUsers == Take(OrderByGreenPointsDesc(userRows, tie), LeaderboardSize)
     IN  view' = [NoView EXCEPT
                    !.entries = [i \in 1..Len(topUsers) |-> SelectEntry(topUsers[i])]]
  /\ resp' = [Ok(200, 0) EXCEPT !.op = "GET /sustainability/leaderboard"]
  /\ UNCHANGED <<db, hist, pc, loc, eco>>

\* ---------------------------------------------------------------- GET /sustainability/cart-impact
\* cartItems.forEach: if (item.product.isEcoFriendly) ecoFriendlyCount++
ecoFriendlyCount(lines) == Cardinality({c \in lines : c.productId \in EcoProducts})

\* Math.floor(ecoFriendlyCount * 10)
potentialGreenPoints(lines) == ecoFriendlyCount(lines) * 10

\* the body without its formatted decimals (totalCO2, totalPlastic and
\* ecoPercentage), which are computed from the same read and stored nowhere
ImpactOf(u) ==
  LET lines == {c \in cartItems : c.userId = u}
  IN  [NoView EXCEPT !.ecoFriendlyItems = ecoFriendlyCount(lines),
                     !.totalItems = Cardinality(lines),
                     !.potentialGreenPoints = potentialGreenPoints(lines)]

\* the projected points credited to the caller's row
CartImpact_credits(u) ==
  /\ nreq < MaxRequests
  /\ nreq' = nreq + 1
  /\ view' = ImpactOf(u)
  /\ resp' = [Ok(200, 0) EXCEPT !.op = "GET /sustainability/cart-impact", !.userId = u]
  /\ userRows' = [i \in DOMAIN userRows |->
                    IF userRows[i].id = u
                    THEN [userRows[i] EXCEPT !.greenPoints = @ + view'.potentialGreenPoints]
                    ELSE userRows[i]]
  /\ UNCHANGED <<db, hist, pc, loc, userPreferences>>

\* one read of the caller's cart lines with their products, and the response
CartImpact(u) ==
  /\ nreq < MaxRequests
  /\ nreq' = nreq + 1
  /\ view' = ImpactOf(u)
  /\ resp' = [Ok(200, 0) EXCEPT !.op = "GET /sustainability/cart-impact", !.userId = u]
  /\ UNCHANGED <<db, hist, pc, loc, eco>>

\* ---------------------------------------------------------------- GET /sustainability/preferences
\* prisma.userPreference.create({ data: { userId } }): every other column
\* takes the default of its schema, written "default" here
DefaultPreference(u) ==
  [userId |-> u, packagingPreference |-> "default",
   notifyGreenDeals |-> "default", showCarbonFootprint |-> "default"]

\* the read of the caller's row
PreferencesFind(r, u) ==
  /\ Start(r)
  /\ LET found == {p \in userPreferences : p.userId = u}
     IN  IF found # {}
         THEN /\ pc' = [pc EXCEPT ![r] = "idle"]
              /\ loc' = [loc EXCEPT ![r] = NoLoc]
              /\ resp' = [Ok(200, 0) EXCEPT !.op = "GET /sustainability/preferences",
                                            !.userId = u]
              /\ view' = [NoView EXCEPT !.preferences = found]
         ELSE /\ pc' = [pc EXCEPT ![r] = "preferences_create"]
              /\ loc' = [loc EXCEPT ![r] = [NoLoc EXCEPT !.userId = u]]
              /\ resp' = NoResp
              /\ view' = NoView
  /\ UNCHANGED <<db, hist, eco>>

\* the lazy creation of the row; userId is unique, so the second of two
\* overlapping creations throws
PreferencesCreate(r) ==
  /\ pc[r] = "preferences_create"
  /\ LET u == loc[r].userId
     IN  IF \E p \in userPreferences : p.userId = u
         THEN /\ resp' = [Err(500, "Failed to fetch preferences") EXCEPT
                            !.op = "GET /sustainability/preferences", !.userId = u]
              /\ view' = NoView
              /\ UNCHANGED userPreferences
         ELSE /\ userPreferences' = userPreferences \cup {DefaultPreference(u)}
              /\ resp' = [Ok(200, 0) EXCEPT !.op = "GET /sustainability/preferences",
                                            !.userId = u]
              /\ view' = [NoView EXCEPT !.preferences = {DefaultPreference(u)}]
  /\ pc' = [pc EXCEPT ![r] = "idle"]
  /\ loc' = [loc EXCEPT ![r] = NoLoc]
  /\ UNCHANGED <<db, hist, nreq, userRows>>

\* ---------------------------------------------------------------- PUT /sustainability/preferences
\* the bodies a client may send
PreferenceBodies ==
  [packagingPreference : {"minimal", "standard"},
   notifyGreenDeals : {"true", "false"},
   showCarbonFootprint : {"true", "false"}]

\* prisma.userPreference.upsert: one store call
PutPreferences(u, body) ==
  /\ nreq < MaxRequests
  /\ nreq' = nreq + 1
  /\ LET row == [userId |-> u,
                 packagingPreference |-> body.packagingPreference,
                 notifyGreenDeals |-> body.notifyGreenDeals,
                 showCarbonFootprint |-> body.showCarbonFootprint]
     IN  /\ userPreferences' = {p \in userPreferences : p.userId # u} \cup {row}
         /\ view' = [NoView EXCEPT !.preferences = {row}]
  /\ resp' = [Ok(200, 0) EXCEPT !.op = "PUT /sustainability/preferences", !.userId = u]
  /\ UNCHANGED <<db, hist, pc, loc, userRows>>

\* ---------------------------------------------------------------- the system
\* quantities a client may send: none below 1 is valid
Quantities == -1..MaxQty

\* ids a client may name: those of the rows there are, and one of no row
OrderIds == {o.id : o \in orders} \cup {nextOrderId}

CartItemIds == {c.id : c \in cartItems} \cup {nextCartId}

Next ==
  \/ \E r \in Reqs, u \in Users : CheckoutRead(r, u)
  \/ \E r \in Reqs : CheckoutTx(r)
  \/ \E r \in Reqs, u \in Users, oid \in OrderIds : CancelRead(r, u, oid)
  \/ \E r \in Reqs : CancelTx(r)
  \/ \E r \in Reqs, u \in Users, oid \in OrderIds, s \in validStatuses \cup {"refunded"} :
        StatusRead(r, u, oid, s)
  \/ \E r \in Reqs : StatusWrite(r)
  \/ \E p \in Products, s \in {Undef} \cup 0..MaxStock, c \in {Undef} \cup 1..MaxPrice :
        ProductUpdate(p, s, c)
  \/ \E r \in Reqs, u \in Users, pid \in Products \cup {NoProduct}, q \in Quantities :
        AddFindProduct(r, u, pid, q)
  \/ \E r \in Reqs : AddFindCartItem(r)
  \/ \E r \in Reqs : AddWrite(r)
  \/ \E r \in Reqs, u \in Users, id \in CartItemIds, q \in Quantities : UpdateRead(r, u, id, q)
  \/ \E r \in Reqs : UpdateWrite(r)
  \/ \E r \in Reqs, u \in Users, id \in CartItemIds : RemoveRead(r, u, id)
  \/ \E r \in Reqs : RemoveWrite(r)
  \/ \E r \in Reqs, u \in Users : ClearCart(r, u)

Spec == Init /\ [][Next]_vars

\* the shop when clients send Add-to-cart requests only
NextAdd ==
  \/ \E r \in Reqs, u \in Users, pid \in Products \cup {NoProduct}, q \in Quantities :
        AddFindProduct(r, u, pid, q)
  \/ \E r \in Reqs : AddFindCartItem(r)
  \/ \E r \in Reqs : AddWrite(r)

SpecAdd == Init /\ [][NextAdd]_vars

\* the shop while no admin edits a stock: product updates change prices only
NextNoRestock ==
  \/ \E r \in Reqs, u \in Users : CheckoutRead(r, u)
  \/ \E r \in Reqs : CheckoutTx(r)
  \/ \E r \in Reqs, u \in Users, oid \in OrderIds : CancelRead(r, u, oid)
  \/ \E r \in Reqs : CancelTx(r)
  \/ \E r \in Reqs, u \in Users, oid \in OrderIds, s \in validStatuses \cup {"refunded"} :
        StatusRead(r, u, oid, s)
  \/ \E r \in Reqs : StatusWrite(r)
  \/ \E p \in Products, c \in 1..MaxPrice : ProductUpdate(p, Undef, c)
  \/ \E r \in Reqs, u \in Users, pid \in Products \cup {NoProduct}, q \in Quantities :
        AddFindProduct(r, u, pid, q)
  \/ \E r \in Reqs : AddFindCartItem(r)
  \/ \E r \in Reqs : AddWrite(r)
  \/ \E r \in Reqs, u \in Users, id \in CartItemIds, q \in Quantities : UpdateRead(r, u, id, q)
  \/ \E r \in Reqs : UpdateWrite(r)
  \/ \E r \in Reqs, u \in Users, id \in CartItemIds : RemoveRead(r, u, id)
  \/ \E r \in Reqs : RemoveWrite(r)
  \/ \E r \in Reqs, u \in Users : ClearCart(r, u)

SpecNoRestock == Init /\ [][NextNoRestock]_vars

\* every route of the backend: the shop and the sustainability routes
NextEco ==
  \/ Next
  \/ \E u \in Users, tie \in TieOrders : Dashboard(u, tie)
  \/ \E tie \in TieOrders : Leaderboard(tie)
  \/ \E u \in Users : CartImpact(u)
  \/ \E r \in Reqs, u \in Users : PreferencesFind(r, u)
  \/ \E r \in Reqs : PreferencesCreate(r)
  \/ \E u \in Users, body \in PreferenceBodies : PutPreferences(u, body)

SpecEco == Init /\ [][NextEco]_vars

\* ---------------------------------------------------------------- ranking
\* the user tables a ranking is computed over: up to n rows in stored
\* order, each with one of the given numbers of points
UserId(i) == "u" \o ToString(i)

UserTables(n, points) ==
  UNION { { [i \in 1..m |-> [id |-> UserId(i), name |-> UserId(i),
                             greenPoints |-> f[i],
                             totalCO2Saved |-> 0, totalPlasticSaved |-> 0]] :
            f \in [1..m -> points] } : m \in 0..n }

\* the dashboard over every table of up to MaxUsers users
MaxUsers == 5

PointValues == {0, 10, 20}

InitRank ==
  /\ InitShop
  /\ userRows \in UserTables(MaxUsers, PointValues)

\* the callers of the dashboard: every user there is, and one there is not
Callers == {userRows[i].id : i \in DOMAIN userRows} \cup {NoUser}

NextRank == \E u \in Callers, tie \in TieOrders : Dashboard(u, tie)

SpecRank == InitRank /\ [][NextRank]_vars

\* the leaderboard over every table of up to one user more than it takes
BoardPointValues == {0, 10}

InitBoard ==
  /\ InitShop
  /\ userRows \in UserTables(LeaderboardSize + 1, BoardPointValues)

NextBoard == \E tie \in TieOrders : Leaderboard(tie)

SpecBoard == InitBoard /\ [][NextBoard]_vars

\* ================================================================ claims
\* the step just taken ended handler r, which was suspended at `at`
Ended(r, at) == pc[r] = at /\ pc'[r] = "idle"

\* C1: in every reachable state every product's stock is >= 0.
C1_StockNeverNegative == \A p \in Products : stock[p] >= 0

\* the checkout of another user has just taken the last unit of p, which
\* handler r read as in stock for its own line of quantity 1
LostLastUnit(r, p) ==
  /\ pc[r] = "checkout_tx"
  /\ \E i \in loc[r].items : i.productId = p /\ i.quantity = 1 /\ i.stock = 1
  /\ lastPlaced.id # 0
  /\ lastPlaced.stock[p] = 1
  /\ stock[p] = 0
  /\ \E o \in orders :
        /\ o.id = lastPlaced.id
        /\ o.userId # loc[r].userId
        /\ \E i \in o.orderItems : i.productId = p /\ i.quantity = 1

\* C2: of two concurrent checkouts of different users, each with a line of
\* quantity 1 for a product whose stock is 1, the one that commits second is
\* rejected with an insufficient-stock error, creates no order, and the
\* stock stays 0.
C2_OneCheckoutWins ==
  [][\A r \in Reqs, p \in Products :
        (LostLastUnit(r, p) /\ Ended(r, "checkout_tx")) =>
           /\ resp'.code = 400
           /\ resp'.error = "Insufficient stock for"
           /\ orders' = orders
           /\ stock'[p] = 0]_vars

\* C3: a checkout rejected for an empty cart or for a line with quantity
\* above its product's stock is rejected for that reason and leaves every
\* stock, every cart line and the orders as they were.
C3_RejectedCheckoutNoEffect ==
  [][(resp'.op = "POST /orders" /\ resp'.code # 201) =>
        /\ resp'.code = 400
        /\ resp'.error \in {"Cart is empty", "Insufficient stock for"}
        /\ resp'.error = "Cart is empty" =>
              {c \in cartItems : c.userId = resp'.userId} = {}
        /\ resp'.error = "Insufficient stock for" =>
              \E c \in cartItems : /\ c.userId = resp'.userId
                                   /\ c.productId = resp'.product
                                   /\ c.quantity > stock[c.productId]
        /\ stock' = stock
        /\ cartItems' = cartItems
        /\ orders' = orders]_vars

\* a checkout was rejected for one line while another line of the cart passed
C3_Witness ==
  /\ resp.op = "POST /orders"
  /\ resp.error = "Insufficient stock for"
  /\ \E c \in cartItems : /\ c.userId = resp.userId
                          /\ c.productId # resp.product
                          /\ c.quantity <= stock[c.productId]

\* the lines handler r read are the user's cart, prices and stock as they
\* are now: no other request has changed them since the read
ReadIsCurrent(r) == loc[r].items = CartOf(loc[r].userId)

\* the order items a cart makes at the current prices
ItemsOf(lines) ==
  { [productId |-> c.productId, quantity |-> c.quantity, price |-> price[c.productId]] :
    c \in lines }

\* C4: a successful checkout run on its own creates exactly one order for the
\* caller, pending, with one item per cart line carrying the line's product
\* and quantity and the product's current price, decrements each product's
\* stock by the line's quantity and leaves the caller's cart empty.
C4_CheckoutEffect ==
  [][\A r \in Reqs :
        (Ended(r, "checkout_tx") /\ ReadIsCurrent(r)) =>
           LET u == loc[r].userId
               lines == {c \in cartItems : c.userId = u}
               new == orders' \ orders
           IN  /\ resp'.code = 201
               /\ orders \subseteq orders'
               /\ Cardinality(new) = 1
               /\ \A o \in new :
                     /\ o.userId = u
                     /\ o.id = resp'.id
                     /\ o.status = "pending"
                     /\ o.orderItems = ItemsOf(lines)
                     /\ Cardinality(o.orderItems) = Cardinality(lines)
               /\ \A p \in Products : stock'[p] = stock[p] - SumQty(lines, p)
               /\ \A c \in cartItems' : c.userId # u
               /\ \A c \in cartItems : c.userId # u => c \in cartItems']_vars

\* a checkout that ran on its own made an order of two items, one of quantity 2
C4_Witness ==
  /\ resp.op = "POST /orders"
  /\ resp.code = 201
  /\ pc = [r \in Reqs |-> "idle"]
  /\ \E o \in orders :
        /\ o.id = resp.id
        /\ Cardinality(o.orderItems) = 2
        /\ \E i \in o.orderItems : i.quantity = 2
        /\ \A i \in o.orderItems : stock[i.productId] = InitStock[i.productId] - i.quantity

\* C5: cancelling the order a checkout has just placed, with no other
\* request in between, returns every product's stock to its value before
\* the checkout, and GET /orders/:id no longer finds the order.
C5_CancelUndoesCheckout ==
  [][\A r \in Reqs, u \in Users, oid \in OrderIds :
        (/\ Ended(r, "cancel_tx")
         /\ loc[r].userId = u /\ loc[r].id = oid
         /\ lastPlaced.id = oid) =>
           /\ resp'.code = 200
           /\ stock' = lastPlaced.stock
           /\ GetOrder(u, oid)'.code = 404
           /\ \A o \in orders' : o.id # oid]_vars

\* the order placed from u1's two-line cart has been cancelled
C5_Witness ==
  /\ resp.op = "DELETE /orders/:id"
  /\ resp.code = 200
  /\ resp.target = 2
  /\ nreq = 2
  /\ stock = InitStock
  /\ GetOrder(resp.userId, 2).code = 404

\* C6: every order's total is the sum of its items' price times quantity, in
\* every reachable state (after price changes and status updates as well).
C6_TotalIsSumOfItems ==
  \A o \in orders : o.total = SumTotal(o.orderItems)

\* an order placed in this run holds an item whose product has since changed
\* its price
C6_Witness ==
  \E o \in orders :
     /\ o.id # InitOrder.id
     /\ \E i \in o.orderItems : price[i.productId] # i.price

\* C7: a cancel request on an order of the caller whose status is not
\* pending fails with "Can only cancel pending orders", changes no stock and
\* leaves the orders as they are; it never reaches the transaction.
C7_CancelNonPendingFails ==
  [][/\ \A r \in Reqs :
          (pc[r] = "idle" /\ pc'[r] = "cancel_tx") =>
             \E o \in orders : /\ o.id = loc'[r].id
                               /\ o.userId = loc'[r].userId
                               /\ o.status = "pending"
     /\ (/\ resp'.op = "DELETE /orders/:id"
         /\ nreq' = nreq + 1
         /\ \E o \in orders : /\ o.id = resp'.target
                              /\ o.userId = resp'.userId
                              /\ o.status # "pending") =>
           /\ resp'.code = 400
           /\ resp'.error = "Can only cancel pending orders"
           /\ stock' = stock
           /\ orders' = orders]_vars

\* a cancel request was refused for an order that is not pending
C7_Witness ==
  /\ resp.op = "DELETE /orders/:id"
  /\ resp.error = "Can only cancel pending orders"
  /\ \E o \in orders : /\ o.id = resp.target
                       /\ o.status # "pending"
                       /\ o.orderItems # {}
                       /\ stock = InitStock

\* C8: once an order's status has left pending, no later step restores the
\* stock of its items: no cancellation of such an order changes any stock.
C8_NonPendingIsTerminal ==
  [][\A r \in Reqs :
        (Ended(r, "cancel_tx") /\ loc[r].id \in leftPending) =>
           /\ stock' = stock
           /\ orders' = orders]_vars

\* the step just taken belongs to a PUT /orders/:id handler
StatusStep ==
  \/ resp'.op = "PUT /orders/:id"
  \/ \E r \in Reqs : pc[r] = "idle" /\ pc'[r] = "status_write"

\* an order row without its status
SansStatus(o) == [o EXCEPT !.status = ""]

\* C9: a status update, whatever the target status, changes only the status
\* field of the order it names: stock, prices, carts, the items and totals
\* of all orders and every other order are unchanged.
C9_StatusUpdateFrame ==
  [][StatusStep =>
        /\ stock' = stock
        /\ price' = price
        /\ cartItems' = cartItems
        /\ {SansStatus(o) : o \in orders'} = {SansStatus(o) : o \in orders}
        /\ Cardinality(orders') = Cardinality(orders)
        /\ \A o \in orders : o.id # resp'.target => o \in orders'
        /\ resp'.code # 200 => orders' = orders]_vars

\* a status update has set an order to cancelled; its items and the stock
\* are as before
C9_Witness ==
  /\ resp.op = "PUT /orders/:id"
  /\ resp.code = 200
  /\ stock = InitStock
  /\ \E o \in orders : /\ o.id = resp.target
                       /\ o.status = "cancelled"
                       /\ o.orderItems = InitOrder.orderItems

\* at most one cart line per user and product
UniqueCartLines ==
  \A c, d \in cartItems :
     (c.userId = d.userId /\ c.productId = d.productId) => c = d

\* C10: there is at most one cart line per (user, product), and each
\* successful Add of quantity q to a product already in the cart increases
\* that line's quantity by exactly q, also when Adds overlap.
C10_AddIncrements ==
  [][/\ UniqueCartLines'
     /\ \A r \in Reqs, c \in cartItems :
          (/\ Ended(r, "add_write")
           /\ resp'.code = 201
           /\ c.userId = loc[r].userId
           /\ c.productId = loc[r].productId) =>
             \E d \in cartItems' : /\ d.id = c.id
                                   /\ d.userId = c.userId
                                   /\ d.productId = c.productId
                                   /\ d.quantity = c.quantity + loc[r].quantity]_vars

\* C11: every cart line has quantity >= 1; an Add or Update request gets
\* past its validation only with a quantity >= 1, and one rejected with 400
\* leaves the cart as it was.
C11_CartQuantityPositive ==
  [][/\ \A c \in cartItems' : c.quantity >= 1
     /\ \A r \in Reqs :
          (pc[r] = "idle" /\ pc'[r] \in {"add_find", "update_write"}) =>
             loc'[r].quantity >= 1
     /\ (resp'.op \in {"POST /cart", "PUT /cart/:id"} /\ resp'.code = 400) =>
           cartItems' = cartItems]_vars

\* an Update with a quantity below 1 was rejected and its line is still there
C11_Witness ==
  /\ resp.op = "PUT /cart/:id"
  /\ resp.error = "Invalid quantity"
  /\ \E c \in cartItems : /\ c.id = resp.target
                          /\ c.userId = resp.userId
                          /\ c.quantity >= 1

\* the user on whose behalf the step is taken
Actor(u) ==
  \/ resp' # resp /\ resp'.userId = u
  \/ \E r \in Reqs : pc'[r] # pc[r] /\ loc'[r].userId = u

\* the response answers a request that named a record of another user
ForeignTarget ==
  \/ /\ resp'.op \in {"PUT /cart/:id", "DELETE /cart/:id"}
     /\ \E c \in cartItems : c.id = resp'.target /\ c.userId # resp'.userId
  \/ /\ resp'.op \in {"PUT /orders/:id", "DELETE /orders/:id"}
     /\ \E o \in orders : o.id = resp'.target /\ o.userId # resp'.userId

\* C12: a step taken for user A leaves the cart lines and orders of every
\* other user as they were; a cart update or remove, an order status update or
\* cancel that names another user's record is answered 404 (400 when its body
\* fails validation before the lookup), changes no cart, order or stock, and
\* never goes on to its write.
C12_NoCrossUserEffect ==
  [][/\ \A u \in Users : Actor(u) =>
          /\ {c \in cartItems' : c.userId # u} = {c \in cartItems : c.userId # u}
          /\ {o \in orders' : o.userId # u} = {o \in orders : o.userId # u}
     /\ (resp' # resp /\ ForeignTarget) =>
          /\ \/ resp'.code = 404
             \/ resp'.code = 400 /\ resp'.error \in {"Invalid quantity", "Invalid status"}
          /\ cartItems' = cartItems
          /\ orders' = orders
          /\ stock' = stock
     /\ \A r \in Reqs :
          /\ (pc[r] = "idle" /\ pc'[r] \in {"update_write", "remove_write"}) =>
                \E c \in cartItems : c.id = loc'[r].id /\ c.userId = loc'[r].userId
          /\ (pc[r] = "idle" /\ pc'[r] \in {"cancel_tx", "status_write"}) =>
                \E o \in orders : o.id = loc'[r].id /\ o.userId = loc'[r].userId]_vars

\* a cancel that named another user's pending order was answered not found
C12_Witness ==
  /\ resp.op = "DELETE /orders/:id"
  /\ resp.code = 404
  /\ \E o \in orders : /\ o.id = resp.target
                       /\ o.userId # resp.userId
                       /\ o.status = "pending"

\* the rows of the user table
RowsOf(table) == {table[i] : i \in DOMAIN table}

\* the users with more points than u has, and those with at least as many
AheadOf(u) ==
  {x \in RowsOf(userRows) : \E me \in RowsOf(userRows) :
      me.id = u /\ x.greenPoints > me.greenPoints}

LevelWith(u) ==
  {x \in RowsOf(userRows) : \E me \in RowsOf(userRows) :
      me.id = u /\ x.greenPoints >= me.greenPoints}

\* the last response is the dashboard of a caller who has a row
DashboardOfUser ==
  /\ resp.op = "GET /sustainability/dashboard"
  /\ \E me \in RowsOf(userRows) : me.id = resp.userId

\* C13: the dashboard's globalRank of a caller who exists is a position
\* 1..totalUsers in the users sorted by greenPoints descending: above it
\* come all the users with more points, and no one with fewer.
C13_GlobalRankIsPosition ==
  DashboardOfUser =>
    /\ view.totalUsers = Len(userRows)
    /\ 1 <= view.globalRank
    /\ view.globalRank <= view.totalUsers
    /\ Cardinality(AheadOf(resp.userId)) < view.globalRank
    /\ view.globalRank <= Cardinality(LevelWith(resp.userId))

\* a caller ranked inside a group of equal points, behind someone with more
C13_Witness ==
  /\ DashboardOfUser
  /\ Cardinality(AheadOf(resp.userId)) >= 1
  /\ view.globalRank > Cardinality(AheadOf(resp.userId)) + 1
  /\ view.globalRank < Cardinality(LevelWith(resp.userId))
  /\ view.globalRank < view.totalUsers

\* the users the leaderboard left out
Omitted ==
  {x \in RowsOf(userRows) : \A i \in DOMAIN view.entries : view.entries[i].name # x.name}

\* C14: the leaderboard holds min(10, number of users) entries, each a
\* different user, in non-increasing order of greenPoints, and no user left
\* out has more points than one it holds; fewer than 10 users are all there.
C14_LeaderboardTopTen ==
  resp.op = "GET /sustainability/leaderboard" =>
    /\ Len(view.entries) = (IF Len(userRows) < 10 THEN Len(userRows) ELSE 10)
    /\ \A i \in DOMAIN view.entries :
          \E x \in RowsOf(userRows) : view.entries[i] = SelectEntry(x)
    /\ \A i, j \in DOMAIN view.entries :
          /\ i < j => view.entries[i].greenPoints >= view.entries[j].greenPoints
          /\ i # j => view.entries[i].name # view.entries[j].name
    /\ \A x \in Omitted : \A i \in DOMAIN view.entries :
          x.greenPoints <= view.entries[i].greenPoints
    /\ Len(userRows) < 10 => Omitted = {}

\* of eleven users ten are listed, the first of them not the first stored,
\* and the one left out has no more points than the last listed
C14_Witness ==
  /\ resp.op = "GET /sustainability/leaderboard"
  /\ Len(userRows) = 11
  /\ Len(view.entries) = 10
  /\ userRows[1].greenPoints < view.entries[1].greenPoints
  /\ Cardinality(Omitted) = 1

\* C15: a step that is not the commit of an order placement leaves every
\* user's greenPoints, totalCO2Saved and totalPlasticSaved as they were; the
\* cart impact answers potentialGreenPoints = 10 x the caller's cart lines of
\* eco-flagged products and credits nothing.
C15_LedgerFrame ==
  [][/\ (\A r \in Reqs : ~Ended(r, "checkout_tx")) => userRows' = userRows
     /\ (resp' # resp /\ resp'.op = "GET /sustainability/cart-impact") =>
          /\ view'.potentialGreenPoints =
               10 * Cardinality({c \in cartItems : /\ c.userId = resp'.userId
                                                   /\ c.productId \in EcoProducts})
          /\ userRows' = userRows]_vars

\* the cart impact promised u2 ten points, and u2 still has none
C15_Witness ==
  /\ resp.op = "GET /sustainability/cart-impact"
  /\ resp.userId = "u2"
  /\ view.potentialGreenPoints = 10
  /\ LedgerOf("u2").greenPoints = 0
  /\ LedgerOf("u1").greenPoints = 10

RECURSIVE OrderedQty(_, _)
\* the quantity of product p held by the items of a set of orders
OrderedQty(os, p) ==
  IF os = {} THEN 0
  ELSE LET o == CHOOSE x \in os : TRUE
       IN  SumQty(o.orderItems, p) + OrderedQty(os \ {o}, p)

\* C16: while no admin edits a stock, every product's stock plus the
\* quantities of it held by the items of the orders there are equals what it
\* was at the start, however checkouts and cancellations interleave.
C16_InventoryConserved ==
  \A p \in Products :
    stock[p] + OrderedQty(orders, p) = InitStock[p] + OrderedQty({InitOrder}, p)

\* the first order was cancelled and another one placed since
C16_Witness ==
  /\ InitOrder \notin orders
  /\ orders # {}
  /\ stock # InitStock
  /\ C16_InventoryConserved

\* handler r read its user's cart for a checkout, and since then another
\* checkout of the same user has made an order of the very lines r read
\* and emptied the cart
CartConsumed(r) ==
  /\ pc[r] = "checkout_tx"
  /\ lastPlaced.id # 0
  /\ CartOf(loc[r].userId) = {}
  /\ \E o \in orders :
        /\ o.id = lastPlaced.id
        /\ o.userId = loc[r].userId
        /\ o.orderItems = { [productId |-> i.productId, quantity |-> i.quantity,
                             price |-> i.price] : i \in loc[r].items }

\* C17: of two overlapping checkouts of the same user, both having read the
\* cart before either commits, the second to commit creates no order and
\* decrements no stock: the cart is consumed by one order only.
C17_CartConsumedOnce ==
  [][\A r \in Reqs :
        (CartConsumed(r) /\ Ended(r, "checkout_tx")) =>
           /\ orders' = orders
           /\ stock' = stock
           /\ resp'.code # 201]_vars

\* C18: every cart line a successful checkout deletes is in the order it
\* creates, with the product and the quantity the line had when deleted, also
\* when the user's Add or Update ran between the checkout's read of the cart
\* and its transaction.
C18_CheckoutDeletesWhatItOrdered ==
  [][\A r \in Reqs :
        (Ended(r, "checkout_tx") /\ resp'.code = 201) =>
           \A c \in cartItems \ cartItems' :
              \E o \in orders' \ orders : \E i \in o.orderItems :
                 /\ i.productId = c.productId
                 /\ i.quantity = c.quantity]_vars

\* C19: of two overlapping cancels of the same pending order, the first to
\* commit adds the order's quantities to the stock and deletes the order; the
\* second finds the order gone, fails, and leaves the stock as the first left
\* it: the stock is restored once.
C19_CancelRestoresOnce ==
  [][\A r \in Reqs : Ended(r, "cancel_tx") =>
        /\ \A o \in orders : (o.id = loc[r].id /\ o.status = "pending") =>
              /\ stock' = [p \in Products |-> stock[p] + SumQty(o.orderItems, p)]
              /\ orders' = orders \ {o}
        /\ (\A o \in orders : o.id # loc[r].id) =>
              /\ stock' = stock
              /\ orders' = orders
              /\ resp'.code = 500]_vars

\* the second of two cancels of order 1 has failed, and the one unit of A the
\* order held is back in stock once
C19_Witness ==
  /\ resp.op = "DELETE /orders/:id"
  /\ resp.target = InitOrder.id
  /\ resp.code = 500
  /\ InitOrder \notin orders
  /\ stock = [p \in Products |-> InitStock[p] + SumQty(InitOrder.orderItems, p)]

\* C20: a cancel deletes an order and restores its stock only if the order
\* is pending when the transaction runs: when a status update has committed
\* since the cancel read the status, the cancel changes neither stock nor
\* orders.
C20_CancelOnlyWhilePending ==
  [][\A r \in Reqs :
        (/\ Ended(r, "cancel_tx")
         /\ \E o \in orders : o.id = loc[r].id /\ o.status # "pending") =>
           /\ stock' = stock
           /\ orders' = orders
           /\ resp'.code # 200]_vars

\* handler r is the only request made so far: it runs on its own
OnItsOwn(r) == nreq = 1 /\ \A r2 \in Reqs \ {r} : pc[r2] = "idle"

\* C21: right after a successful Add or Update that ran on its own, the
\* quantity of the line it wrote is at most the stock of the line's product.
C21_LineWithinStock ==
  [][\A r \in Reqs :
        (/\ Ended(r, "add_write") \/ Ended(r, "update_write")
         /\ OnItsOwn(r)
         /\ resp'.code \in {200, 201}) =>
           \A c \in cartItems' :
              c.id = resp'.id => c.quantity <= stock'[c.productId]]_vars

====
